---- MODULE Spec2Model ----
\* A model of bevy_picking_state_machine: the per-frame pipeline
\*   picking_window_system | picking_button_system | picking_state_machine_system
\* (src/src/lib.rs), the transition synthesis PickingStateMachine::queue_transitions
\* (src/src/transitions.rs), the per-entity ButtonFilter (src/src/local.rs) and the
\* hierarchy walk PropagatedPickingStateMachine::entity_equivalent
\* (src/src/propagation.rs).
\*
\* Conventions
\*   Option<T>      : << >> is None, << x >> is Some(x).
\*   Entity         : a string of Entities.
\*   MouseButton    : a string of Buttons; Left is MouseButton::Left.
\*   f32 / Vec2     : small integers (orders, depths, times, positions); the two
\*                    infinities of the target scan are values outside the finite range.
EXTENDS Integers, Sequences, FiniteSets, TLC

\* ------------------------------------------------------------------ bounds

MaxBatches == 2     \* PointerHits events read in one frame
MaxHits == 2        \* (entity, hit) pairs in one frame, over all its events
MaxOrder == 1       \* batch orders are 0..MaxOrder
MaxDepth == 1       \* hit depths are 0..MaxDepth
MaxTime == 1        \* elapsed time is 0..MaxTime
MaxPos == 1         \* cursor positions are 0..MaxPos
MaxCount == 3       \* the count of PropagateUp / AndPropagateUp is 0..MaxCount

\* ------------------------------------------------------------------ values

Entities == {"A", "B"}
Left == "Left"
Buttons == {Left, "Right"}
Orders == 0..MaxOrder
Depths == 0..MaxDepth
Times == 0..MaxTime
Positions == 0..MaxPos

\* Vec2::ZERO, the default pointer and the `down` of an event without press record.
ZERO == 0
\* f32::NEG_INFINITY as a batch order: below every finite order.
NEG_INFINITY == 0 - 1
\* f32::INFINITY as a depth: above every finite depth.
INFINITY == MaxDepth + 1

Some(x) == << x >>
NoneOpt == << >>
IsSome(o) == o # << >>
Unwrap(o) == o[1]

\* GlobalPickingState
StateNone == [kind |-> "None"]
Hover(e) == [kind |-> "Hover", entity |-> e]
Pressed(e) == [kind |-> "Pressed", entity |-> e]

\* PressState
PressState(b, p, t) == [button |-> b, position |-> p, time |-> t]

\* PickingTransition
TPressed(e, b) == [kind |-> "Pressed", entity |-> e, button |-> b]
TReleased(e, b, d, t, o) ==
    [kind |-> "Released", entity |-> e, button |-> b, down |-> d, time |-> t, outside |-> o]
THoverEnter(e) == [kind |-> "HoverEnter", entity |-> e]
THoverExit(e) == [kind |-> "HoverExit", entity |-> e]
TCancelled(e, b, d, t) ==
    [kind |-> "Cancelled", entity |-> e, button |-> b, down |-> d, time |-> t]

\* PickingPropagation
PropagateDown == [kind |-> "PropagateDown"]
PropagateUp(n) == [kind |-> "PropagateUp", count |-> n]
AndPropagateUp(n) == [kind |-> "AndPropagateUp", count |-> n]
NoPropagation == [kind |-> "NoPropagation"]

\* PickingTransitions: None, One(t), FromTo([t1, t2]) as the slice they deref to.
One(t) == << t >>
FromTo(t1, t2) == << t1, t2 >>

\* ------------------------------------------------------------------ state

VARIABLES
    \* PickingStateMachinePlugin (settings) and the ButtonFilter components
    allowed_buttons, cancel_hover, filters,
    \* PickingStateMachine
    previous, current, pointer, press, current_btn_just_pressed,
    pointer_is_out_of_bounds, is_post_cancellation_state, transitions,
    \* position in the piped systems and the value piped from picking_button_system
    pc, pressed,
    \* what the running frame read: time, ButtonInput, PointerHits; the target it chose;
    \* whether press.unwrap() has panicked
    now, input_pressed, input_just_pressed, hits, target, panicked,
    \* the resource as it was when the running frame started (with the buttons that were
    \* down in the frame before), and whether a frame has completed
    before, updated,
    \* PropagatedPickingStateMachine: the ChildOf and PickingPropagation components, the
    \* arguments of entity_equivalent and its answer
    parents, propagation, active, to, equivalent,
    \* the press-lifecycle events emitted so far, folded: the Pressed event not yet
    \* followed by a Released or Cancelled event, after the last frame and before it
    open_press, open_before

config == << allowed_buttons, cancel_hover, filters >>
machine == << previous, current, pointer, press, current_btn_just_pressed,
              pointer_is_out_of_bounds, is_post_cancellation_state, transitions >>
frame == << now, input_pressed, input_just_pressed, hits, target, panicked, before, updated >>
hierarchy == << parents, propagation, active, to, equivalent >>
history == << open_press, open_before >>
vars == << config, machine, pc, pressed, frame, hierarchy, history >>

\* ------------------------------------------------------------------ inputs

\* Sequences over S of length 0..n.
SeqUpTo(S, n) == UNION {[1..k -> S] : k \in 0..n}

\* settings.allowed_buttons: the default list (Left alone, Right is then not trackable)
\* and a list of two trackable buttons.
AllowedChoices == {<< Left >>, << Left, "Right" >>}
\* Query<&ButtonFilter>: per entity, no component or a ButtonFilter (a set of buttons).
\* Either no entity has a filter, or A admits Left alone and B has none.
FilterChoices == {[e \in Entities |-> NoneOpt],
                  [e \in Entities |-> IF e = "A" THEN Some({Left}) ELSE NoneOpt]}

\* window.cursor_position(): None (no window, cursor outside) or a position.
CursorChoices == {NoneOpt} \cup {Some(p) : p \in Positions}

\* One (entity, HitData) pair, and the PointerHits events with at most k picks.
Picks == [entity : Entities, depth : Depths]
Batches(k) == [order : Orders, picks : SeqUpTo(Picks, k)]
RECURSIVE CountHits(_)
CountHits(hs) == IF hs = << >> THEN 0 ELSE Len(Head(hs).picks) + CountHits(Tail(hs))
\* The frames of at most MaxBatches events and MaxHits picks in all. The events of a
\* frame come in any order of their `order`, and an event may be empty.
HitChoices == {hs \in SeqUpTo(Batches(MaxHits), MaxBatches) : CountHits(hs) <= MaxHits}
\* Frames whose events carry no order or depth to tell apart: at most one pick.
SingleHits == {hs \in HitChoices : Len(hs) <= 1 /\ CountHits(hs) = Len(hs)
                                   /\ \A i \in 1..Len(hs) :
                                         hs[i].order = 0 /\ hs[i].picks[1].depth = 0}

\* The entities of the hierarchy that entity_equivalent walks.
Hierarchy == {"A", "B", "C", "D"}
\* The k-th ancestor of x under the parent lookup ps, None where the chain ends first.
RECURSIVE NthAncestor(_, _, _)
NthAncestor(ps, x, k) ==
    IF k = 0 THEN Some(x)
    ELSE IF ps[x] = NoneOpt THEN NoneOpt
    ELSE NthAncestor(ps, Unwrap(ps[x]), k - 1)
\* Query<&ChildOf>: per entity, no parent or one parent, without cycles.
ParentChoices ==
    {ps \in [Hierarchy -> {NoneOpt} \cup {Some(p) : p \in Hierarchy}] :
        \A x \in Hierarchy : NthAncestor(ps, x, Cardinality(Hierarchy)) = NoneOpt}
\* Query<&PickingPropagation>: no component, or one of the four policies.
PolicyChoices ==
    {NoneOpt, Some(PropagateDown), Some(NoPropagation)}
    \cup {Some(PropagateUp(n)) : n \in 0..MaxCount}
    \cup {Some(AndPropagateUp(n)) : n \in 0..MaxCount}

\* ------------------------------------------------------------------ ButtonFilter

\* ButtonFilter::contains
contains(filter, btn) == btn \in filter

\* ------------------------------------------------------------------ queries

\* GlobalPickingState::current_entity
current_entity(state) == IF state.kind = "None" THEN NoneOpt ELSE Some(state.entity)

\* PickingStateMachine::get_state: the EntityPickingState of an entity.
get_state(state, entity) ==
    CASE state.kind = "None" -> "None"
      [] state.kind = "Hover" -> (IF entity = state.entity THEN "Hover" ELSE "None")
      [] state.kind = "Pressed" -> (IF entity = state.entity THEN "Hover" ELSE "None")

\* ------------------------------------------------------------------ queue_transitions

\* PressedToNone that emits nothing.
PressedToNone_Silent(entity, button, down, time, post) == << >>

\* PressedToNone with the post-cancellation flag not consulted.
PressedToNone_AlwaysReleased(entity, button, down, time, post) ==
    One(TReleased(entity, button, down, time, TRUE))

\* The arm (Pressed { entity }, None): a cancel in post-cancellation mode, a release
\* outside the entity otherwise.
PressedToNone(entity, button, down, time, post) ==
    IF post
    THEN One(TCancelled(entity, button, down, time))
    ELSE One(TReleased(entity, button, down, time, TRUE))

\* PickingStateMachine::queue_transitions: the transitions of a frame from the
\* (previous, current) pair, the press record, the post-cancellation flag, the
\* just-pressed flag and the time.
queue_transitions(prev, cur, pr, post, just, t) ==
    LET time == IF IsSome(pr) THEN t - Unwrap(pr).time ELSE 0
        button == IF IsSome(pr) THEN Unwrap(pr).button ELSE Left
        down == IF IsSome(pr) THEN Unwrap(pr).position ELSE ZERO
    IN  CASE prev.kind = "None" /\ cur.kind = "None" -> << >>
          [] prev.kind = "None" /\ cur.kind = "Hover" -> One(THoverEnter(cur.entity))
          [] prev.kind = "None" /\ cur.kind = "Pressed" -> One(TPressed(cur.entity, button))
          [] prev.kind = "Hover" /\ cur.kind = "None" -> One(THoverExit(prev.entity))
          [] prev.kind = "Hover" /\ cur.kind = "Hover" ->
                IF prev.entity # cur.entity
                THEN FromTo(THoverExit(prev.entity), THoverEnter(cur.entity))
                ELSE << >>
          [] prev.kind = "Hover" /\ cur.kind = "Pressed" ->
                IF prev.entity = cur.entity
                THEN One(TPressed(prev.entity, button))
                ELSE FromTo(THoverExit(prev.entity), TPressed(cur.entity, button))
          [] prev.kind = "Pressed" /\ cur.kind = "None" ->
                PressedToNone(prev.entity, button, down, time, post)
          [] prev.kind = "Pressed" /\ cur.kind = "Hover" ->
                IF prev.entity = cur.entity
                THEN One(TReleased(prev.entity, button, down, time, FALSE))
                ELSE FromTo(TReleased(prev.entity, button, down, time, TRUE),
                            THoverEnter(cur.entity))
          [] prev.kind = "Pressed" /\ cur.kind = "Pressed" ->
                IF prev.entity # cur.entity \/ just
                THEN FromTo(TReleased(prev.entity, button, down, time, TRUE),
                            TPressed(cur.entity, button))
                ELSE << >>

\* ------------------------------------------------------------------ picking_window_system

picking_window_system(cursor) ==
    /\ pc = "window"
    /\ ~panicked
    /\ IF IsSome(cursor)
       THEN /\ pointer' = Unwrap(cursor)
            /\ pointer_is_out_of_bounds' = FALSE
       ELSE /\ pointer_is_out_of_bounds' = TRUE
            /\ UNCHANGED pointer
    /\ pc' = "button"
    \* a new frame starts: remember how the last one left the resource
    /\ before' = [press |-> press, post |-> is_post_cancellation_state,
                  down |-> input_pressed]
    /\ input_pressed' = {}
    /\ input_just_pressed' = {}
    /\ hits' = << >>
    /\ target' = NoneOpt
    /\ UNCHANGED << config, previous, current, press, current_btn_just_pressed,
                    is_post_cancellation_state, transitions, pressed, now, panicked,
                    updated, hierarchy, history >>

\* ------------------------------------------------------------------ picking_button_system

\* The loop over settings.allowed_buttons, from index i on; acc holds the three locals
\* current_button, cancel and just_pressed. The loop breaks at the second pressed button.
\* ScanButtons with the second pressed button ignored instead of cancelling.
RECURSIVE ScanButtons_KeepFirst(_, _, _, _, _)
ScanButtons_KeepFirst(allowed, i, down, just, acc) ==
    IF i > Len(allowed) THEN acc
    ELSE LET button == allowed[i] IN
         IF button \in down
         THEN LET jp == acc.just_pressed \/ button \in just IN
              IF acc.current_button = NoneOpt
              THEN ScanButtons_KeepFirst(allowed, i + 1, down, just,
                               [current_button |-> Some(button), cancel |-> acc.cancel,
                                just_pressed |-> jp])
              ELSE [current_button |-> acc.current_button, cancel |-> FALSE,
                    just_pressed |-> jp]
         ELSE ScanButtons_KeepFirst(allowed, i + 1, down, just, acc)

RECURSIVE ScanButtons(_, _, _, _, _)
ScanButtons(allowed, i, down, just, acc) ==
    IF i > Len(allowed) THEN acc
    ELSE LET button == allowed[i] IN
         IF button \in down
         THEN LET jp == acc.just_pressed \/ button \in just IN
              IF acc.current_button = NoneOpt
              THEN ScanButtons(allowed, i + 1, down, just,
                               [current_button |-> Some(button), cancel |-> acc.cancel,
                                just_pressed |-> jp])
              ELSE [current_button |-> NoneOpt, cancel |-> TRUE, just_pressed |-> jp]
         ELSE ScanButtons(allowed, i + 1, down, just, acc)

\* ButtonChanged that never fires.
ButtonChanged_Never(pr, current_button) == FALSE

\* The release-one-press-another check: the press record's button differs from the
\* button found down.
ButtonChanged(pr, current_button) ==
    IsSome(pr) /\ IsSome(current_button) /\ Unwrap(current_button) # Unwrap(pr).button

\* PostCancellation that leaves the mode as soon as no trigger fires.
PostCancellation_ClearOnPartial(cancel, post, current_button) ==
    IF cancel THEN TRUE ELSE FALSE

\* The if / else-if chain on cancel: the new is_post_cancellation_state.
PostCancellation(cancel, post, current_button) ==
    IF cancel THEN TRUE
    ELSE IF post /\ current_button = NoneOpt THEN FALSE
    ELSE post

\* The same chain: the new current_btn_just_pressed, reset before the chain.
JustPressed(cancel, post, current_button, just_pressed) ==
    IF cancel THEN FALSE
    ELSE IF post /\ current_button = NoneOpt THEN FALSE
    ELSE just_pressed

\* TrackPress that never writes the record.
TrackPress_Never(pr, current_button, ptr, time) == pr

\* The press record after the button system: written whenever one button is tracked.
TrackPress(pr, current_button, ptr, time) ==
    IF IsSome(current_button)
    THEN Some(PressState(Unwrap(current_button), ptr, time))
    ELSE pr

picking_button_system(time, down, just) ==
    /\ pc = "button"
    /\ ~panicked
    /\ LET scan == ScanButtons(allowed_buttons, 1, down, just,
                               [current_button |-> NoneOpt, cancel |-> FALSE,
                                just_pressed |-> FALSE])
           current_button == scan.current_button
           cancel == scan.cancel \/ ButtonChanged(press, current_button)
       IN  /\ is_post_cancellation_state' =
                 PostCancellation(cancel, is_post_cancellation_state, current_button)
           /\ current_btn_just_pressed' =
                 JustPressed(cancel, is_post_cancellation_state, current_button,
                             scan.just_pressed)
           /\ press' = TrackPress(press, current_button, pointer, time)
           /\ pressed' = IsSome(current_button)
    /\ now' = time
    /\ input_pressed' = down
    /\ input_just_pressed' = just
    /\ pc' = "state_machine"
    /\ UNCHANGED << config, previous, current, pointer, pointer_is_out_of_bounds,
                    transitions, hits, target, panicked, before, updated, hierarchy,
                    history >>

\* ------------------------------------------------------------------ picking_state_machine_system

\* can_acquire_new_target that forgets the press record.
can_acquire_new_target_AnyTime(post, pr, just) == ~post

\* can_acquire_new_target that also holds as soon as no button is tracked in the frame.
can_acquire_new_target_OnRelease(post, pr, just) ==
    ~post /\ (pr = NoneOpt \/ just \/ ~pressed)

\* PickingStateMachine::can_acquire_new_target
can_acquire_new_target(post, pr, just) == ~post /\ (pr = NoneOpt \/ just)

\* PriorityGreater without the Reverse: within an order the greater depth wins.
PriorityGreater_Deepest(p, m) == p[1] > m[1] \/ (p[1] = m[1] /\ p[2] > m[2])

\* `priority > min` on (f32, Reverse<f32>) pairs: a greater order, or the same order and
\* a smaller depth.
PriorityGreater(p, m) == p[1] > m[1] \/ (p[1] = m[1] /\ p[2] < m[2])

\* ScanPicks without the lock-in on the pressed entity.
RECURSIVE ScanPicks_NoLockIn(_, _, _, _, _, _)
ScanPicks_NoLockIn(picks, j, order, cur, can_acquire, acc) ==
    IF j > Len(picks) THEN acc
    ELSE LET entity == picks[j].entity
             priority == << order, picks[j].depth >>
         IN  IF ~can_acquire
             THEN ScanPicks_NoLockIn(picks, j + 1, order, cur, can_acquire, acc)
             ELSE IF priority[1] > acc.min[1]
                     \/ (priority[1] = acc.min[1] /\ priority[2] < acc.min[2])
             THEN ScanPicks_NoLockIn(picks, j + 1, order, cur, can_acquire,
                            [min |-> priority, target |-> Some(entity), stop |-> FALSE])
             ELSE ScanPicks_NoLockIn(picks, j + 1, order, cur, can_acquire, acc)

\* The inner loop over one event's picks, from index j on. acc holds the locals min and
\* target, and stop, set when the loop left through `break 'main`.
RECURSIVE ScanPicks(_, _, _, _, _, _)
ScanPicks(picks, j, order, cur, can_acquire, acc) ==
    IF j > Len(picks) THEN acc
    ELSE LET entity == picks[j].entity
             priority == << order, picks[j].depth >>
         IN  IF Some(entity) = cur
             THEN [min |-> acc.min, target |-> cur, stop |-> TRUE]
             ELSE IF ~can_acquire
             THEN ScanPicks(picks, j + 1, order, cur, can_acquire, acc)
             ELSE IF PriorityGreater(priority, acc.min)
             THEN ScanPicks(picks, j + 1, order, cur, can_acquire,
                            [min |-> priority, target |-> Some(entity), stop |-> FALSE])
             ELSE ScanPicks(picks, j + 1, order, cur, can_acquire, acc)

\* The outer loop 'main over the PointerHits events read this frame, from index i on.
RECURSIVE ScanHits(_, _, _, _, _)
ScanHits(hs, i, cur, can_acquire, acc) ==
    IF i > Len(hs) \/ acc.stop THEN acc
    ELSE ScanHits(hs, i + 1, cur, can_acquire,
                  ScanPicks(hs[i].picks, 1, hs[i].order, cur, can_acquire, acc))

\* The target the scan selects: `cur` is the pressed entity, if the state is Pressed.
SelectTarget(hs, state, can_acquire) ==
    LET cur == IF state.kind = "Pressed" THEN Some(state.entity) ELSE NoneOpt
    IN  ScanHits(hs, 1, cur, can_acquire,
                 [min |-> << NEG_INFINITY, INFINITY >>, target |-> NoneOpt,
                  stop |-> FALSE]).target

\* FilterAdmits that admits every button.
FilterAdmits_Always(fs, entity, pr) == TRUE

\* filters.get(entity) and ButtonFilter::contains: no filter admits every button. The
\* press record is unwrapped only when the entity has a filter.
FilterAdmits(fs, entity, pr) ==
    IF IsSome(fs[entity]) THEN contains(Unwrap(fs[entity]), Unwrap(pr).button) ELSE TRUE

\* Resolve without the preservation of Pressed when no target is selected.
Resolve_NoPreserve(tgt, state, is_pressed, just, post, cancel_hov, fs, pr) ==
    IF tgt = NoneOpt
    THEN StateNone
    ELSE LET entity == Unwrap(tgt) IN
         IF post
         THEN (IF state.kind = "Hover" /\ state.entity = entity /\ ~cancel_hov
               THEN Hover(entity)
               ELSE StateNone)
         ELSE IF ~is_pressed
         THEN Hover(entity)
         ELSE IF FilterAdmits(fs, entity, pr) THEN Pressed(entity) ELSE Hover(entity)

\* Resolve that drops to None when a target is selected with no button held.
Resolve_NoHoverOnRelease(tgt, state, is_pressed, just, post, cancel_hov, fs, pr) ==
    IF tgt = NoneOpt
    THEN IF is_pressed /\ ~just
         THEN (IF state.kind = "Pressed" THEN state ELSE StateNone)
         ELSE StateNone
    ELSE LET entity == Unwrap(tgt) IN
         IF post
         THEN (IF state.kind = "Hover" /\ state.entity = entity /\ ~cancel_hov
               THEN Hover(entity)
               ELSE StateNone)
         ELSE IF ~is_pressed
         THEN StateNone
         ELSE IF FilterAdmits(fs, entity, pr) THEN Pressed(entity) ELSE Hover(entity)

\* The match on the target: the new current state.
Resolve(tgt, state, is_pressed, just, post, cancel_hov, fs, pr) ==
    IF tgt = NoneOpt
    THEN IF is_pressed /\ ~just
         THEN (IF state.kind = "Pressed" THEN state ELSE StateNone)
         ELSE StateNone
    ELSE LET entity == Unwrap(tgt) IN
         IF post
         THEN (IF state.kind = "Hover" /\ state.entity = entity /\ ~cancel_hov
               THEN Hover(entity)
               ELSE StateNone)
         ELSE IF ~is_pressed
         THEN Hover(entity)
         ELSE IF FilterAdmits(fs, entity, pr) THEN Pressed(entity) ELSE Hover(entity)

\* state_machine.press.unwrap() on a missing press record.
UnwrapPanics(tgt, is_pressed, post, fs, pr) ==
    /\ IsSome(tgt)
    /\ ~post
    /\ is_pressed
    /\ IsSome(fs[Unwrap(tgt)])
    /\ pr = NoneOpt

\* ClearPress that never deletes.
ClearPress_Never(pr, is_pressed) == pr

\* The delayed deletion of the press record, after the transitions are queued.
ClearPress(pr, is_pressed) == IF ~is_pressed THEN NoneOpt ELSE pr

\* The open press after one more event of a frame's transition list: a Pressed event
\* opens one, a Released or Cancelled event closes it, a hover event leaves it.
AfterEvent(open, ev) ==
    IF ev.kind = "Pressed" THEN Some([entity |-> ev.entity, button |-> ev.button])
    ELSE IF ev.kind \in {"Released", "Cancelled"} THEN NoneOpt
    ELSE open
\* The open press after the first n events of ts, read in the order of the list.
RECURSIVE AfterEvents(_, _, _)
AfterEvents(open, ts, n) ==
    IF n = 0 THEN open ELSE AfterEvent(AfterEvents(open, ts, n - 1), ts[n])

picking_state_machine_system(hs) ==
    /\ pc = "state_machine"
    /\ ~panicked
    /\ LET can_acquire == can_acquire_new_target(is_post_cancellation_state, press,
                                                 current_btn_just_pressed)
           tgt == SelectTarget(hs, current, can_acquire)
       IN  /\ target' = tgt
           /\ previous' = current
           /\ IF UnwrapPanics(tgt, pressed, is_post_cancellation_state, filters, press)
              THEN /\ panicked' = TRUE
                   /\ UNCHANGED << current, transitions, press, history >>
              ELSE LET new == Resolve(tgt, current, pressed, current_btn_just_pressed,
                                      is_post_cancellation_state, cancel_hover, filters,
                                      press)
                   IN  /\ current' = new
                       /\ transitions' = queue_transitions(current, new, press,
                                             is_post_cancellation_state,
                                             current_btn_just_pressed, now)
                       /\ press' = ClearPress(press, pressed)
                       /\ open_before' = open_press
                       /\ open_press' =
                             LET ts == queue_transitions(current, new, press,
                                            is_post_cancellation_state,
                                            current_btn_just_pressed, now)
                             IN  AfterEvents(open_press, ts, Len(ts))
                       /\ UNCHANGED panicked
    /\ hits' = hs
    /\ updated' = TRUE
    /\ pc' = "window"
    /\ UNCHANGED << config, pointer, current_btn_just_pressed, pointer_is_out_of_bounds,
                    is_post_cancellation_state, pressed, now, input_pressed,
                    input_just_pressed, before, hierarchy >>

\* ------------------------------------------------------------------ entity_equivalent

\* `while let Ok(parent) = self.parents.get(current)`: walking up from cur, a parent
\* that is one of `marks` is met.
RECURSIVE WalkFinds(_, _, _)
WalkFinds(ps, cur, marks) ==
    IF ps[cur] = NoneOpt THEN FALSE
    ELSE IF Unwrap(ps[cur]) \in marks THEN TRUE
    ELSE WalkFinds(ps, Unwrap(ps[cur]), marks)

\* Climb that stays where it is.
Climb_Stay(ps, root, count) == root

\* `for _ in 0..count` of PropagateUp: root climbs to its parent, and the loop breaks
\* where there is none.
RECURSIVE Climb(_, _, _)
Climb(ps, root, count) ==
    IF count = 0 THEN root
    ELSE IF ps[root] = NoneOpt THEN root
    ELSE Climb(ps, Unwrap(ps[root]), count - 1)

\* `for _ in 0..count` of AndPropagateUp: climbing from cur, `to` is met within count
\* steps.
RECURSIVE ClimbFinds(_, _, _, _)
ClimbFinds(ps, cur, count, target_entity) ==
    IF count = 0 THEN FALSE
    ELSE IF ps[cur] = NoneOpt THEN FALSE
    ELSE IF Unwrap(ps[cur]) = target_entity THEN TRUE
    ELSE ClimbFinds(ps, Unwrap(ps[cur]), count - 1, target_entity)

\* PropagatedPickingStateMachine::entity_equivalent: pol is propagation.get(act), None
\* for an entity without the component.
entity_equivalent(ps, pol, act, target_entity) ==
    IF act = target_entity THEN TRUE
    ELSE IF pol = NoneOpt THEN WalkFinds(ps, target_entity, {act})
    ELSE LET policy == Unwrap(pol) IN
         CASE policy.kind = "NoPropagation" -> act = target_entity
           [] policy.kind = "PropagateDown" -> WalkFinds(ps, target_entity, {act})
           [] policy.kind = "PropagateUp" ->
                WalkFinds(ps, target_entity, {act, Climb(ps, act, policy.count)})
           [] policy.kind = "AndPropagateUp" ->
                \/ WalkFinds(ps, target_entity, {act})
                \/ ClimbFinds(ps, act, policy.count, target_entity)

\* ------------------------------------------------------------------ specification

\* No event has been emitted yet.
NoHistory ==
    /\ open_press = NoneOpt
    /\ open_before = NoneOpt

\* No hierarchy: no entity has a parent or a policy, and nothing is asked.
NoHierarchy ==
    /\ parents = [e \in Hierarchy |-> NoneOpt]
    /\ propagation = [e \in Hierarchy |-> NoneOpt]
    /\ active = "A"
    /\ to = "A"
    /\ equivalent = FALSE

\* PickingStateMachine::default() under some plugin settings and filter components.
\* The settings and the components stay as they are over a run: nothing in the crate
\* writes them, and a ButtonFilter has no method that changes it.
Init ==
    /\ allowed_buttons \in AllowedChoices
    /\ cancel_hover \in BOOLEAN
    /\ filters \in FilterChoices
    /\ previous = StateNone
    /\ current = StateNone
    /\ pointer = ZERO
    /\ press = NoneOpt
    /\ current_btn_just_pressed = FALSE
    /\ pointer_is_out_of_bounds = FALSE
    /\ is_post_cancellation_state = FALSE
    /\ transitions = << >>
    /\ pc = "window"
    /\ pressed = FALSE
    /\ now = 0
    /\ input_pressed = {}
    /\ input_just_pressed = {}
    /\ hits = << >>
    /\ target = NoneOpt
    /\ panicked = FALSE
    /\ before = [press |-> NoneOpt, post |-> FALSE, down |-> {}]
    /\ updated = FALSE
    /\ NoHierarchy
    /\ NoHistory

\* One frame is the three piped systems in turn. The inputs of each are drawn from
\* the sets given: cursor positions, times (Time<Virtual>::elapsed_secs never
\* decreases), ButtonInput (a just-pressed button that is not down is never looked at),
\* and the PointerHits events.
WindowStep(cursors) == \E cursor \in cursors : picking_window_system(cursor)
ButtonStep(times) ==
    \E time \in times, down \in SUBSET Buttons :
        \E just \in SUBSET down :
            /\ time >= now
            /\ picking_button_system(time, down, just)
StateMachineStep(hitsets) == \E hs \in hitsets : picking_state_machine_system(hs)

\* Spec: every configuration, every button input and every frame of hits, with the
\* clock paused and the cursor resting at one position. Neither the time nor the
\* pointer is read by any condition of the three systems: they only flow into the
\* press record and the events, which SpecClock follows.
Next ==
    \/ WindowStep({Some(ZERO)})
    \/ ButtonStep({now})
    \/ StateMachineStep(HitChoices)

Spec == Init /\ [][Next]_vars

\* SpecFaithful: as Spec, with a ButtonInput that reports a button just pressed only
\* in a frame where it is down and was up in the frame before (no release and
\* re-press between two frames).
FaithfulButtonStep ==
    \E down \in SUBSET Buttons :
        \E just \in SUBSET (down \ before.down) :
            picking_button_system(now, down, just)

NextFaithful ==
    \/ WindowStep({Some(ZERO)})
    \/ FaithfulButtonStep
    \/ StateMachineStep(HitChoices)

SpecFaithful == Init /\ [][NextFaithful]_vars

\* SpecClock: the clock advances and the cursor moves or leaves the window, under the
\* default cancel_hover, two trackable buttons and no filter, with frames of at most
\* one hit.
InitClock ==
    /\ Init
    /\ allowed_buttons = << Left, "Right" >>
    /\ cancel_hover = FALSE
    /\ \A e \in Entities : filters[e] = NoneOpt

NextClock ==
    \/ WindowStep(CursorChoices)
    \/ ButtonStep(Times)
    \/ StateMachineStep(SingleHits)

SpecClock == InitClock /\ [][NextClock]_vars

\* SpecSynth: queue_transitions on its own, applied once to every (previous, current)
\* pair, press record, post-cancellation flag, just-pressed flag and time of the
\* bounded sets, reachable by the frame update or not.
States == {StateNone} \cup {Hover(e) : e \in Entities} \cup {Pressed(e) : e \in Entities}
PressStates == {PressState(b, p, t) : b \in Buttons, p \in Positions, t \in Times}

InitSynth ==
    /\ allowed_buttons = << Left, "Right" >>
    /\ cancel_hover = FALSE
    /\ filters = [e \in Entities |-> NoneOpt]
    /\ previous \in States
    /\ current \in States
    /\ press \in {NoneOpt} \cup {Some(x) : x \in PressStates}
    /\ is_post_cancellation_state \in BOOLEAN
    /\ current_btn_just_pressed \in BOOLEAN
    /\ now \in Times
    /\ IsSome(press) => now >= Unwrap(press).time
    /\ pointer = ZERO
    /\ pointer_is_out_of_bounds = FALSE
    /\ transitions = << >>
    /\ pc = "queue"
    /\ pressed = FALSE
    /\ input_pressed = {}
    /\ input_just_pressed = {}
    /\ hits = << >>
    /\ target = NoneOpt
    /\ panicked = FALSE
    /\ before = [press |-> NoneOpt, post |-> FALSE, down |-> {}]
    /\ updated = FALSE
    /\ NoHierarchy
    /\ NoHistory

QueueStep ==
    /\ pc = "queue"
    /\ transitions' = queue_transitions(previous, current, press,
                                        is_post_cancellation_state,
                                        current_btn_just_pressed, now)
    /\ pc' = "queued"
    /\ UNCHANGED << config, previous, current, pointer, press, current_btn_just_pressed,
                    pointer_is_out_of_bounds, is_post_cancellation_state, pressed,
                    frame, hierarchy, history >>

NextSynth == QueueStep

SpecSynth == InitSynth /\ [][NextSynth]_vars

\* SpecEquiv: entity_equivalent on its own, asked once for every forest over the
\* hierarchy, every pair (active, to) and every policy of the active entity. The
\* policies of the other entities are never read.
InitEquiv ==
    /\ allowed_buttons = << Left >>
    /\ cancel_hover = FALSE
    /\ filters = [e \in Entities |-> NoneOpt]
    /\ previous = StateNone
    /\ current = StateNone
    /\ pointer = ZERO
    /\ press = NoneOpt
    /\ current_btn_just_pressed = FALSE
    /\ pointer_is_out_of_bounds = FALSE
    /\ is_post_cancellation_state = FALSE
    /\ transitions = << >>
    /\ pc = "equivalent"
    /\ pressed = FALSE
    /\ now = 0
    /\ input_pressed = {}
    /\ input_just_pressed = {}
    /\ hits = << >>
    /\ target = NoneOpt
    /\ panicked = FALSE
    /\ before = [press |-> NoneOpt, post |-> FALSE, down |-> {}]
    /\ updated = FALSE
    /\ parents \in ParentChoices
    /\ active \in Hierarchy
    /\ to \in Hierarchy
    /\ propagation \in {[e \in Hierarchy |-> IF e = active THEN pol ELSE NoneOpt] :
                            pol \in PolicyChoices}
    /\ equivalent = FALSE
    /\ NoHistory

EquivalentStep ==
    /\ pc = "equivalent"
    /\ equivalent' = entity_equivalent(parents, propagation[active], active, to)
    /\ pc' = "answered"
    /\ UNCHANGED << config, machine, pressed, frame, parents, propagation, active, to,
                    history >>

NextEquiv == EquivalentStep

SpecEquiv == InitEquiv /\ [][NextEquiv]_vars

\* ------------------------------------------------------------------ the frame, as the claims see it

Range(f) == {f[i] : i \in DOMAIN f}

\* A frame has completed and the next has not started: the variables hold what the
\* frame read and what it left.
FrameDone == pc = "window" /\ updated /\ ~panicked

\* The trackable buttons down in the frame, and in the frame before it.
TrackableDown == input_pressed \cap Range(allowed_buttons)
TrackableDownBefore == before.down \cap Range(allowed_buttons)

\* The entities among the frame's hit candidates.
HitEntities(hs) == UNION {{hs[i].picks[j].entity : j \in DOMAIN hs[i].picks} : i \in DOMAIN hs}
\* The candidates as (event index, pick index) pairs and the key of one.
HitIndex(hs) == UNION {{<< i, j >> : j \in DOMAIN hs[i].picks} : i \in DOMAIN hs}
HitEntity(hs, ij) == hs[ij[1]].picks[ij[2]].entity
\* ij is a best candidate: no candidate has a higher order, or the same order and a
\* smaller depth.
IsBest(hs, ij) ==
    \A kl \in HitIndex(hs) :
        LET p == hs[ij[1]] q == hs[kl[1]] IN
        /\ q.order <= p.order
        /\ q.order = p.order => q.picks[kl[2]].depth >= p.picks[ij[2]].depth

\* The two cancellation triggers of a frame: two or more trackable buttons down, or one
\* down that is not the button of the press record the frame found.
CancelTrigger ==
    \/ Cardinality(TrackableDown) >= 2
    \/ /\ Cardinality(TrackableDown) = 1
       /\ IsSome(before.press)
       /\ Unwrap(before.press).button \notin TrackableDown

Kinds(ts) == [i \in DOMAIN ts |-> ts[i].kind]
Emitted(kind, e) == \E i \in DOMAIN transitions :
                        transitions[i].kind = kind /\ transitions[i].entity = e

\* ------------------------------------------------------------------ C1

\* C1: with cancel_hover = false, a frame that starts in Hover(e), fires a cancellation
\* trigger and has e as a best hit candidate ends in Hover(e) and emits no HoverExit(e).
C1_HoverSurvivesCancellation ==
    \A e \in Entities :
        (/\ FrameDone
         /\ ~cancel_hover
         /\ previous = Hover(e)
         /\ CancelTrigger
         /\ \E ij \in HitIndex(hits) : HitEntity(hits, ij) = e /\ IsBest(hits, ij))
        => (current = Hover(e) /\ ~Emitted("HoverExit", e))

\* ------------------------------------------------------------------ C2

\* C2: get_state(x) is Pressed iff the state is Pressed{x}, Hover iff it is Hover{x},
\* and None in every other case.
C2_GetStateIsEqualityProjection ==
    \A x \in Entities :
        get_state(current, x) =
            IF current = Pressed(x) THEN "Pressed"
            ELSE IF current = Hover(x) THEN "Hover"
            ELSE "None"

\* ------------------------------------------------------------------ C3

\* C3: a frame with two or more trackable buttons down ends in post-cancellation mode;
\* if it started in Pressed(e), its transitions are exactly [Cancelled(e)] and its
\* state is None, whether or not e is among the hit candidates.
C3_TwoButtonsCancel ==
    (FrameDone /\ Cardinality(TrackableDown) >= 2)
    => /\ is_post_cancellation_state
       /\ previous.kind = "Pressed"
          => /\ Len(transitions) = 1
             /\ transitions[1].kind = "Cancelled"
             /\ transitions[1].entity = previous.entity
             /\ current = StateNone

\* Two buttons go down on a pressed entity that is among the hits.
C3_Witness ==
    /\ FrameDone
    /\ Cardinality(TrackableDown) >= 2
    /\ previous.kind = "Pressed"
    /\ previous.entity \in HitEntities(hits)
    /\ Emitted("Cancelled", previous.entity)

\* Two buttons go down on a pressed entity that is absent from the hits.
C3_WitnessAbsent ==
    /\ FrameDone
    /\ Cardinality(TrackableDown) >= 2
    /\ previous.kind = "Pressed"
    /\ previous.entity \notin HitEntities(hits)
    /\ Emitted("Cancelled", previous.entity)

\* ------------------------------------------------------------------ C4

\* C4: post-cancellation mode, once set, is still set after every frame with a
\* trackable button down (also when only one of the buttons was released), and is not
\* set after a frame with no trackable button down.
C4_PostCancellationUntilAllUp ==
    FrameDone
    => /\ (before.post /\ TrackableDown # {}) => is_post_cancellation_state
       /\ TrackableDown = {} => ~is_post_cancellation_state

\* Partial release: of two buttons down one is released, the mode stays.
C4_Witness ==
    /\ FrameDone
    /\ before.post
    /\ Cardinality(TrackableDownBefore) = 2
    /\ Cardinality(TrackableDown) = 1
    /\ is_post_cancellation_state

\* All released: the mode was set and the frame clears it.
C4_WitnessCleared ==
    /\ FrameDone
    /\ before.post
    /\ TrackableDown = {}
    /\ ~is_post_cancellation_state

\* ------------------------------------------------------------------ C5

\* The frame found a press record and exactly its button is down in the frame.
SameButtonStillDown ==
    /\ IsSome(before.press)
    /\ TrackableDown = {Unwrap(before.press).button}

C6_CleanInteractions ==
    (FrameDone /\ TrackableDown \ input_just_pressed # {})
    => \/ current = StateNone
       \/ current.kind = "Pressed" /\ current = previous

\* A held button over fresh candidates: nothing is acquired.
C6_Witness ==
    /\ FrameDone
    /\ TrackableDown \ input_just_pressed # {}
    /\ Cardinality(TrackableDown) = 1
    /\ ~is_post_cancellation_state
    /\ previous = StateNone
    /\ hits # << >>
    /\ HitEntities(hits) # {}
    /\ current = StateNone

\* ------------------------------------------------------------------ C7

\* The table of spec section 4.3.1 as (previous, current, events) rows, with the row
\* the claim adds for Pressed(e) -> Pressed(e) without a fresh press: elapsed is now
\* minus the press record's time (0 without record), down its position (zero without),
\* the button its button.
TableRows(post, fresh, button, down, elapsed) ==
    LET Rel(e, outside) == TReleased(e, button, down, elapsed, outside)
        Distinct == {ee \in Entities \X Entities : ee[1] # ee[2]}
    IN  {<< StateNone, StateNone, << >> >>}
        \cup {<< StateNone, Hover(e), << THoverEnter(e) >> >> : e \in Entities}
        \cup {<< StateNone, Pressed(e), << TPressed(e, button) >> >> : e \in Entities}
        \cup {<< Hover(e), StateNone, << THoverExit(e) >> >> : e \in Entities}
        \cup {<< Hover(ee[1]), Hover(ee[2]), << THoverExit(ee[1]), THoverEnter(ee[2]) >> >> :
                ee \in Distinct}
        \cup {<< Hover(e), Hover(e), << >> >> : e \in Entities}
        \cup {<< Hover(e), Pressed(e), << TPressed(e, button) >> >> : e \in Entities}
        \cup {<< Hover(ee[1]), Pressed(ee[2]),
                 << THoverExit(ee[1]), TPressed(ee[2], button) >> >> : ee \in Distinct}
        \cup {<< Pressed(e), StateNone,
                 IF post THEN << TCancelled(e, button, down, elapsed) >>
                 ELSE << Rel(e, TRUE) >> >> : e \in Entities}
        \cup {<< Pressed(e), Hover(e), << Rel(e, FALSE) >> >> : e \in Entities}
        \cup {<< Pressed(ee[1]), Hover(ee[2]), << Rel(ee[1], TRUE), THoverEnter(ee[2]) >> >> :
                ee \in Distinct}
        \cup {<< Pressed(e), Pressed(e),
                 IF fresh THEN << Rel(e, TRUE), TPressed(e, button) >> ELSE << >> >> :
                e \in Entities}
        \cup {<< Pressed(ee[1]), Pressed(ee[2]),
                 << Rel(ee[1], TRUE), TPressed(ee[2], button) >> >> : ee \in Distinct}

\* C7: the synthesised transitions are those of the one table row of the (previous,
\* current) pair, in the row's order, for every combination of the bounded sets.
C7_SynthesisMatchesTable ==
    pc = "queued"
    => LET rows == TableRows(is_post_cancellation_state, current_btn_just_pressed,
                             IF IsSome(press) THEN Unwrap(press).button ELSE Left,
                             IF IsSome(press) THEN Unwrap(press).position ELSE ZERO,
                             IF IsSome(press) THEN now - Unwrap(press).time ELSE 0)
           match == {r \in rows : r[1] = previous /\ r[2] = current}
       IN  /\ Cardinality(match) = 1
           /\ \A r \in match : transitions = r[3]

\* A press on one entity ends in a hover on another: the release comes first.
C7_Witness ==
    /\ pc = "queued"
    /\ previous = Pressed("A")
    /\ current = Hover("B")
    /\ Kinds(transitions) = << "Released", "HoverEnter" >>

\* A press is cancelled in post-cancellation mode.
C7_WitnessCancelled ==
    /\ pc = "queued"
    /\ previous = Pressed("A")
    /\ current = StateNone
    /\ is_post_cancellation_state
    /\ Kinds(transitions) = << "Cancelled" >>

\* ------------------------------------------------------------------ C8

\* The press record as the target scan found it: the button system has written it, the
\* deletion comes after the scan.
PressAtScan == IF pressed THEN press ELSE before.press
AcquisitionPermitted ==
    ~is_post_cancellation_state /\ (PressAtScan = NoneOpt \/ current_btn_just_pressed)

\* ij comes before kl in scan order.
ScannedBefore(ij, kl) == ij[1] < kl[1] \/ (ij[1] = kl[1] /\ ij[2] < kl[2])
\* The first best candidate in scan order, if there is a candidate.
FirstBest(hs) ==
    IF HitIndex(hs) = {} THEN NoneOpt
    ELSE LET best == {ij \in HitIndex(hs) : IsBest(hs, ij)}
             first == CHOOSE ij \in best : \A kl \in best : kl = ij \/ ScannedBefore(ij, kl)
         IN  Some(HitEntity(hs, first))

\* C8: where acquisition is permitted and the pressed entity is not among the
\* candidates, the target is the first candidate in scan order with the greatest
\* (order, negated depth) key, and none without candidates; with no button down and the
\* state None before, the frame ends hovering the target with [HoverEnter(target)].
C8_TargetSelection ==
    (/\ FrameDone
     /\ AcquisitionPermitted
     /\ previous.kind = "Pressed" => previous.entity \notin HitEntities(hits))
    => /\ target = FirstBest(hits)
       /\ (TrackableDown = {} /\ previous = StateNone /\ IsSome(target))
          => /\ current = Hover(Unwrap(target))
             /\ transitions = << THoverEnter(Unwrap(target)) >>

\* The scenario of the spec: A in the lower-order event and closer, B in the
\* higher-order event and deeper, no button down, None before.
C8_Witness ==
    /\ FrameDone
    /\ AcquisitionPermitted
    /\ TrackableDown = {}
    /\ previous = StateNone
    /\ hits = << [order |-> 0, picks |-> << [entity |-> "A", depth |-> 0] >>],
                 [order |-> 1, picks |-> << [entity |-> "B", depth |-> 1] >>] >>
    /\ target = Some("B")
    /\ current = Hover("B")
    /\ transitions = << THoverEnter("B") >>

\* Equal keys: the first encountered is selected.
C8_WitnessTie ==
    /\ FrameDone
    /\ AcquisitionPermitted
    /\ hits = << [order |-> 1, picks |-> << [entity |-> "B", depth |-> 1],
                                            [entity |-> "A", depth |-> 1] >>] >>
    /\ target = Some("B")

\* ------------------------------------------------------------------ C9

\* C9 as stated: after a frame the press record is present iff at least one trackable
\* button is down in the frame.
C9_PressIffAnyDown ==
    FrameDone => (IsSome(press) <=> TrackableDown # {})

\* C9 amended: after a frame the press record is present iff exactly one trackable
\* button is down in the frame; it is absent with two or more down at once.
C9_PressIffOneDown ==
    FrameDone
    => /\ IsSome(press) <=> Cardinality(TrackableDown) = 1
       /\ IsSome(press) => Unwrap(press).button \in TrackableDown

\* A second button goes down on a held one: the record is dropped.
C9_Witness ==
    /\ FrameDone
    /\ IsSome(before.press)
    /\ Cardinality(TrackableDown) >= 2
    /\ press = NoneOpt

\* One button is down and recorded.
C9_WitnessOne ==
    /\ FrameDone
    /\ Cardinality(TrackableDown) = 1
    /\ IsSome(press)

\* ------------------------------------------------------------------ C10

\* C10: while the same single button stays down, the press record keeps the position
\* and the time of the frame in which tracking started.
C10_PressKeepsOrigin ==
    (FrameDone /\ SameButtonStillDown)
    => /\ IsSome(press)
       /\ Unwrap(press).position = Unwrap(before.press).position
       /\ Unwrap(press).time = Unwrap(before.press).time

\* ------------------------------------------------------------------ C11

\* C11: a frame that starts in Pressed(e) with the same single button still down and
\* not just pressed, no cancellation trigger, and e absent from every hit event (or no
\* event at all) ends in Pressed(e) with an empty transition list, whatever other
\* candidates are present.
C11_FlickerAvoidance ==
    \A e \in Entities :
        (/\ FrameDone
         /\ previous = Pressed(e)
         /\ SameButtonStillDown
         /\ TrackableDown \cap input_just_pressed = {}
         /\ ~CancelTrigger
         /\ e \notin HitEntities(hits))
        => (current = Pressed(e) /\ transitions = << >>)

\* The pressed entity is absent while another candidate is present.
C11_Witness ==
    /\ FrameDone
    /\ previous.kind = "Pressed"
    /\ SameButtonStillDown
    /\ TrackableDown \cap input_just_pressed = {}
    /\ ~CancelTrigger
    /\ previous.entity \notin HitEntities(hits)
    /\ HitEntities(hits) # {}
    /\ current = previous
    /\ transitions = << >>

\* The frame has no candidate at all.
C11_WitnessNoHits ==
    /\ FrameDone
    /\ previous.kind = "Pressed"
    /\ SameButtonStillDown
    /\ TrackableDown \cap input_just_pressed = {}
    /\ hits = << >>
    /\ current = previous
    /\ transitions = << >>

\* ------------------------------------------------------------------ C12

\* C12: a frame that starts in Pressed(e) outside post-cancellation mode, with no
\* trackable button down and e among the hit candidates, ends in Hover(e) with exactly
\* [Released(e, outside = false)], also when another candidate has a higher priority.
C12_ReleaseOnPressed ==
    \A e \in Entities :
        (/\ FrameDone
         /\ previous = Pressed(e)
         /\ TrackableDown = {}
         /\ ~before.post
         /\ e \in HitEntities(hits))
        => /\ current = Hover(e)
           /\ Len(transitions) = 1
           /\ transitions[1].kind = "Released"
           /\ transitions[1].entity = e
           /\ transitions[1].outside = FALSE

\* The button is released over the pressed entity, under a competitor scanned first
\* with a higher order.
C12_Witness ==
    /\ FrameDone
    /\ previous.kind = "Pressed"
    /\ TrackableDown = {}
    /\ ~before.post
    /\ Len(hits) = 2
    /\ Len(hits[1].picks) = 1 /\ Len(hits[2].picks) = 1
    /\ hits[1].picks[1].entity # previous.entity
    /\ hits[2].picks[1].entity = previous.entity
    /\ hits[1].order > hits[2].order
    /\ current = Hover(previous.entity)
    /\ Kinds(transitions) = << "Released" >>

\* ------------------------------------------------------------------ C13

\* C13: in a frame that selects a target t with exactly one trackable button b down
\* and post-cancellation mode not set, the state is Pressed(t) if t has no ButtonFilter
\* or its filter contains b, and Hover(t) otherwise; and no frame emits a Pressed event
\* for an entity whose filter does not contain the button held in the frame.
C13_ButtonFilter ==
    FrameDone
    => /\ \A t \in Entities, b \in Buttons :
            (/\ target = Some(t)
             /\ TrackableDown = {b}
             /\ ~is_post_cancellation_state)
            => current = IF filters[t] = NoneOpt \/ contains(Unwrap(filters[t]), b)
                         THEN Pressed(t)
                         ELSE Hover(t)
       /\ \A i \in DOMAIN transitions :
            (transitions[i].kind = "Pressed" /\ IsSome(filters[transitions[i].entity]))
            => /\ TrackableDown = {transitions[i].button}
               /\ contains(Unwrap(filters[transitions[i].entity]), transitions[i].button)

\* The press is suppressed: A admits Left alone and Right goes down over it.
C13_Witness ==
    /\ FrameDone
    /\ target = Some("A")
    /\ IsSome(filters["A"])
    /\ TrackableDown = {"Right"}
    /\ ~is_post_cancellation_state
    /\ current = Hover("A")
    /\ \A i \in DOMAIN transitions : transitions[i].kind # "Pressed"

\* The scenario of the spec: Hover(B), the button newly pressed, B without filter.
C13_WitnessPressed ==
    /\ FrameDone
    /\ previous = Hover("B")
    /\ filters["B"] = NoneOpt
    /\ TrackableDown = {Left}
    /\ Left \in input_just_pressed
    /\ current = Pressed("B")
    /\ transitions = << TPressed("B", Left) >>

\* ------------------------------------------------------------------ C14

\* The relation of spec section 4.5, stated over sets of ancestors.
StrictAncestors(ps, x) ==
    {Unwrap(NthAncestor(ps, x, k)) :
        k \in {j \in 1..Cardinality(Hierarchy) : IsSome(NthAncestor(ps, x, j))}}
\* The first n ancestors of x, fewer where the chain is shorter.
FirstAncestors(ps, x, n) ==
    {Unwrap(NthAncestor(ps, x, k)) :
        k \in {j \in 1..n : IsSome(NthAncestor(ps, x, j))}}
\* The n-th ancestor of x, the topmost one where the chain is shorter than n.
TopOf(ps, x, n) ==
    LET len == Cardinality(StrictAncestors(ps, x))
    IN  Unwrap(NthAncestor(ps, x, IF n < len THEN n ELSE len))
Reference(ps, pol, act, target_entity) ==
    IF act = target_entity THEN TRUE
    ELSE IF pol = NoneOpt \/ pol = Some(PropagateDown)
    THEN act \in StrictAncestors(ps, target_entity)
    ELSE IF pol = Some(NoPropagation) THEN FALSE
    ELSE IF Unwrap(pol).kind = "PropagateUp"
    THEN StrictAncestors(ps, target_entity)
            \cap {act, TopOf(ps, act, Unwrap(pol).count)} # {}
    ELSE \/ act \in StrictAncestors(ps, target_entity)
         \/ target_entity \in FirstAncestors(ps, act, Unwrap(pol).count)

C14_WitnessUnrelated ==
    /\ pc = "answered"
    /\ active = "B"
    /\ propagation["B"] = Some(PropagateUp(1))
    /\ parents["B"] = Some("A")
    /\ parents["A"] = NoneOpt
    /\ parents["D"] = NoneOpt
    /\ to = "D"
    /\ ~equivalent

\* AndPropagateUp(2) on a chain of three: the second ancestor is reached, the third not.
C14_WitnessAndUp ==
    /\ pc = "answered"
    /\ active = "A"
    /\ propagation["A"] = Some(AndPropagateUp(2))
    /\ parents["A"] = Some("B")
    /\ parents["B"] = Some("C")
    /\ parents["C"] = Some("D")
    /\ to = "D"
    /\ ~equivalent

\* ------------------------------------------------------------------ C15

\* C15: under PropagateUp(n) with n >= 1, entity_equivalent(active, to) is true for
\* every `to` that is one of the first n ancestors of active, the n-th included, and
\* for every descendant of one of those ancestors.
C15_PropagateUpReachesParents ==
    (/\ pc = "answered"
     /\ IsSome(propagation[active])
     /\ Unwrap(propagation[active]).kind = "PropagateUp"
     /\ Unwrap(propagation[active]).count >= 1
     /\ LET ups == FirstAncestors(parents, active, Unwrap(propagation[active]).count)
        IN  to \in ups \/ StrictAncestors(parents, to) \cap ups # {})
    => equivalent

\* ------------------------------------------------------------------ C16

\* C16: whenever post-cancellation mode is set at the end of a frame, the state is not
\* Pressed; a button-change cancellation on Pressed(e) with e absent from the hits ends
\* in None with Cancelled(e).
C16_CancellationEndsPress ==
    (FrameDone /\ is_post_cancellation_state) => current.kind # "Pressed"

\* ------------------------------------------------------------------ C17

\* C17: with a button reported just pressed only where it is down and was up in the
\* frame before, no frame emits both a Released or Cancelled event and a Pressed
\* event, and no frame goes from Pressed(e1) to Pressed(e2) with e1 # e2 or from
\* Pressed(e) to Pressed(e) with the just-pressed flag set.
C17_OneLifecycleEvent ==
    FrameDone
    => /\ ~(/\ \E i \in DOMAIN transitions : transitions[i].kind \in {"Released", "Cancelled"}
            /\ \E i \in DOMAIN transitions : transitions[i].kind = "Pressed")
       /\ (previous.kind = "Pressed" /\ current.kind = "Pressed")
          => (previous.entity = current.entity /\ ~current_btn_just_pressed)

\* One button is released and another pressed in the same frame, over the pressed
\* entity: the frame emits the cancellation alone.
C17_Witness ==
    /\ FrameDone
    /\ previous.kind = "Pressed"
    /\ previous.entity \in HitEntities(hits)
    /\ TrackableDownBefore = {Left}
    /\ TrackableDown = {"Right"}
    /\ "Right" \in input_just_pressed
    /\ Kinds(transitions) = << "Cancelled" >>

\* ------------------------------------------------------------------ C18

\* C18: with a button reported just pressed whenever it is down (also one that was
\* down in the frame before), the transition list of a frame holds at most one event
\* addressed to any entity.
C18_OneEventPerEntity ==
    FrameDone
    => \A i, j \in DOMAIN transitions :
            transitions[i].entity = transitions[j].entity => i = j

\* ------------------------------------------------------------------ C19

\* C19: in a frame with no trackable button down after a frame with exactly one down,
\* no target is acquired: the frame ends in None, or in Hover(e) for the e it started
\* pressed on; releasing with the pressed entity absent from the hits gives None and
\* [Released(e, outside = true)]. In a frame with no button down after a frame with
\* none down, from None, the best candidate is hovered with [HoverEnter].
C19_NoAcquisitionOnRelease ==
    FrameDone
    => /\ (TrackableDown = {} /\ Cardinality(TrackableDownBefore) = 1)
          => /\ \/ current = StateNone
                \/ previous.kind = "Pressed" /\ current = Hover(previous.entity)
             /\ (previous.kind = "Pressed" /\ previous.entity \notin HitEntities(hits))
                => /\ current = StateNone
                   /\ Len(transitions) = 1
                   /\ transitions[1].kind = "Released"
                   /\ transitions[1].entity = previous.entity
                   /\ transitions[1].outside = TRUE
       /\ (TrackableDown = {} /\ TrackableDownBefore = {} /\ previous = StateNone
           /\ IsSome(FirstBest(hits)))
          => /\ current = Hover(Unwrap(FirstBest(hits)))
             /\ transitions = << THoverEnter(Unwrap(FirstBest(hits))) >>

\* The button is released over another entity than the pressed one.
C19_Witness ==
    /\ FrameDone
    /\ TrackableDown = {}
    /\ Cardinality(TrackableDownBefore) = 1
    /\ previous.kind = "Pressed"
    /\ HitEntities(hits) # {}
    /\ previous.entity \notin HitEntities(hits)
    /\ current = StateNone
    /\ Kinds(transitions) = << "Released" >>

\* The frame after such a release: the other entity is hovered.
C19_WitnessNext ==
    /\ FrameDone
    /\ TrackableDown = {}
    /\ TrackableDownBefore = {}
    /\ previous = StateNone
    /\ before.press = NoneOpt
    /\ current.kind = "Hover"
    /\ Kinds(transitions) = << "HoverEnter" >>

\* ------------------------------------------------------------------ C20

\* C20: press.unwrap() never fails; after a frame that selected a target with a button
\* held outside post-cancellation mode the press record is present; and after a frame
\* that ends in Pressed(e) exactly one trackable button is down and the press record
\* holds that button.
C20_PressedHasRecord ==
    /\ ~panicked
    /\ (pc = "window" /\ updated)
       => /\ (IsSome(target) /\ pressed /\ ~is_post_cancellation_state) => IsSome(press)
          /\ current.kind = "Pressed"
             => /\ Cardinality(TrackableDown) = 1
                /\ IsSome(press)
                /\ TrackableDown = {Unwrap(press).button}

\* The filter of A is consulted and admits the button: the record was unwrapped.
C20_Witness ==
    /\ FrameDone
    /\ IsSome(filters["A"])
    /\ target = Some("A")
    /\ pressed
    /\ ~is_post_cancellation_state
    /\ previous # Pressed("A")
    /\ current = Pressed("A")
    /\ IsSome(press)

\* ------------------------------------------------------------------ C21

\* The open press as the i-th event of the frame's list found it.
OpenAt(i) == AfterEvents(open_before, transitions, i - 1)

\* C21: over every sequence of frames, a Released(e) or Cancelled(e) event is emitted
\* only when the last press-lifecycle event before it was Pressed(e), a Pressed event
\* only when no Pressed event is still open (the Released of the same frame's
\* [Released, Pressed] pair closes it first), and after every frame the state is
\* Pressed(e) exactly when a Pressed(e) event is open.
C21_WellNested ==
    FrameDone
    => /\ \A i \in DOMAIN transitions :
            /\ transitions[i].kind \in {"Released", "Cancelled"}
               => /\ IsSome(OpenAt(i))
                  /\ Unwrap(OpenAt(i)).entity = transitions[i].entity
            /\ transitions[i].kind = "Pressed" => OpenAt(i) = NoneOpt
       /\ \A e \in Entities :
            current = Pressed(e) <=> (IsSome(open_press) /\ Unwrap(open_press).entity = e)

\* A press that lasted over a frame without event is closed by a cancellation.
C21_Witness ==
    /\ FrameDone
    /\ IsSome(open_before)
    /\ before.post = FALSE
    /\ Cardinality(TrackableDownBefore) = 1
    /\ Kinds(transitions) = << "Cancelled" >>
    /\ transitions[1].entity = Unwrap(open_before).entity
    /\ open_press = NoneOpt
    /\ current = StateNone

\* The pair of one frame: the open press is closed and opened again.
C21_WitnessPair ==
    /\ FrameDone
    /\ IsSome(open_before)
    /\ Kinds(transitions) = << "Released", "Pressed" >>
    /\ IsSome(open_press)
    /\ current.kind = "Pressed"

\* ------------------------------------------------------------------ C22

\* C22: over every sequence of frames, a Released or Cancelled event for e carries the
\* button of the Pressed(e) event that opened the press, also when the press is
\* cancelled by releasing the held button and pressing another in the same frame.
C22_ReleaseCarriesPressButton ==
    FrameDone
    => \A i \in DOMAIN transitions :
            (transitions[i].kind \in {"Released", "Cancelled"} /\ IsSome(OpenAt(i)))
            => transitions[i].button = Unwrap(OpenAt(i)).button

====
